---------------------------- MODULE Spec2Model ----------------------------
(***************************************************************************)
(* A model of package golog: the producers' entry points (Log,            *)
(* IsProduction, AddLoggerInstance and the sends on the exported          *)
(* channels) and the dispatcher goroutine started by init().              *)
(*                                                                         *)
(* The repository holds two versions of the package:                      *)
(*   variant = "fixed"     src/log.go            "[LEVEL] subject, body"   *)
(*   variant = "template"  src/unnamed/part_000  token expansion           *)
(* A behaviour runs one of them from start to end.  Three specifications:  *)
(* Spec (all entry points, a few calls), SpecFlood (one producer fills the *)
(* Sink channel) and SpecExpand (Instance.expand evaluated on its own).    *)
(*                                                                         *)
(* Strings are sequences of chunks (a chunk is a literal piece of text or *)
(* one token/verb); channels follow Go's semantics: a FIFO buffer of the  *)
(* channel's capacity plus a FIFO queue of blocked senders; a nil channel *)
(* blocks its senders for ever and is never ready in a select.            *)
(***************************************************************************)
EXTENDS Integers, Sequences, FiniteSets, TLC

VARIABLES
    variant,    \* which source file runs: "fixed" or "template"
    level,      \* var level LogLevel
    prefix,     \* var prefix string (fixed variant)
    gologgers,  \* var gologgers []*Instance
    chan,       \* the buffers of the five channels
    sendq,      \* per channel, the producers blocked in a send, with their value
    dpc,        \* the dispatcher goroutine: "select", "handle" or "panicked"
    cur,        \* the value the dispatcher's select received
    written,    \* per output handle, the lines written to it
    budget,     \* calls the producers may still make
    issuedBy,   \* history: per producer and channel, the sends it has made
    deregBy,    \* history: per producer, the names it has sent on DeRegisterLogger
    handled,    \* history: per producer and channel, the commands processed
    removed,    \* history: names deregistered and not registered since
    last,       \* history: what the dispatcher's last handler did
    rin,        \* the arguments of a call of expand made on its own
    rout        \* what that call returned

vars == <<variant, level, prefix, gologgers, chan, sendq, dpc, cur, written,
          budget, issuedBy, deregBy, handled, removed, last, rin, rout>>

\* what no step of the package's goroutines changes
staticVars == <<variant, rin, rout>>

----------------------------------------------------------------------------
(* Bounds of the model *)

\* calls made by all producers together in one behaviour
MaxOps == 3

\* calls to Log in the behaviours that fill the Sink channel
FloodOps == 258

Procs == {"p1", "p2"}

FloodProcs == {"p1"}

----------------------------------------------------------------------------
(* LogLevel: const ( All LogLevel = iota ... None ) *)

All == 0

Trace == 1

Debug == 2

Info == 3

Warning == 4

Error == 5

None == 6

\* LogLevel is a uint8: a value past None is a LogLevel too
BadLevel == 7

LevelNames == <<"ALL ", "TRC ", "DBG ", "INFO", "WARN", "ERR ", "NONE">>

\* func (ll LogLevel) String() string: the default case panics
StringPanics(ll) == ll > None

LevelString(ll) == LevelNames[ll + 1]

----------------------------------------------------------------------------
(* Channels *)

Channels == {"Sink", "NewLevel", "Prefix", "RegisterLogger", "DeRegisterLogger"}

\* Sink = make(chan Message, 256)
SinkCap == 256

\* a changed NewLevel: make(chan LogLevel, 1)
NewLevelBuffered == 0 + 1

\* NewLevel = make(chan LogLevel)
NewLevelCap == 0

\* Prefix = make(chan string)
PrefixCap == 0

\* RegisterLogger = make(chan *Instance, 1)
RegisterLoggerCap == 1

\* DeRegisterLogger = make(chan string, 1)
DeRegisterLoggerCap == 1

ChanCap(ch) ==
    CASE ch = "Sink" -> SinkCap
      [] ch = "NewLevel" -> NewLevelCap
      [] ch = "Prefix" -> PrefixCap
      [] ch = "RegisterLogger" -> RegisterLoggerCap
      [] ch = "DeRegisterLogger" -> DeRegisterLoggerCap

\* log.go declares RegisterLogger and DeRegisterLogger and never makes them
IsNilChan(ch) ==
    variant = "fixed" /\ ch \in {"RegisterLogger", "DeRegisterLogger"}

\* part_000 has no Prefix channel
HasChan(ch) == ~(variant = "template" /\ ch = "Prefix")

Blocked(p) == \E ch \in Channels : \E k \in 1..Len(sendq[ch]) : sendq[ch][k].from = p

\* a changed send on a full channel: select { case ch <- v: default: }
SendFullDrops(p, ch, c) == UNCHANGED <<chan, sendq>>

\* ch <- v  when the buffer is full (or the channel unbuffered): the sender parks
SendFull(p, ch, c) ==
    /\ sendq' = [sendq EXCEPT ![ch] = Append(@, [from |-> p, c |-> c])]
    /\ UNCHANGED chan

\* a changed send: the buffer hands out the newest value first
SendLifo(p, ch, c) ==
    IF ~IsNilChan(ch) /\ Len(chan[ch]) < ChanCap(ch)
    THEN /\ chan' = [chan EXCEPT ![ch] = <<c>> \o @]
         /\ UNCHANGED sendq
    ELSE /\ sendq' = [sendq EXCEPT ![ch] = Append(@, [from |-> p, c |-> c])]
         /\ UNCHANGED chan

\* ch <- v
Send(p, ch, c) ==
    IF ~IsNilChan(ch) /\ Len(chan[ch]) < ChanCap(ch)
    THEN /\ chan' = [chan EXCEPT ![ch] = Append(@, c)]
         /\ UNCHANGED sendq
    ELSE SendFull(p, ch, c)

\* a select case  v := <-ch  is ready
Ready(ch) ==
    /\ HasChan(ch)
    /\ ~IsNilChan(ch)
    /\ (Len(chan[ch]) > 0 \/ Len(sendq[ch]) > 0)

\* the value the receive yields: the buffer's head, or the first parked
\* sender's value when nothing is buffered
RecvValue(ch) ==
    IF Len(chan[ch]) > 0 THEN Head(chan[ch]) ELSE Head(sendq[ch]).c

\* the receive: the head leaves the buffer, the first parked sender's value
\* enters it and that sender resumes
Recv(ch) ==
    /\ chan' = [chan EXCEPT ![ch] =
                  IF Len(@) > 0
                  THEN IF Len(sendq[ch]) > 0
                       THEN Append(Tail(@), Head(sendq[ch]).c)
                       ELSE Tail(@)
                  ELSE @]
    /\ sendq' = [sendq EXCEPT ![ch] = IF Len(@) > 0 THEN Tail(@) ELSE @]


----------------------------------------------------------------------------
(* Text: fmt.Sprintf, strings.Replace, strings.Contains on chunk sequences *)

ExpandFunctionName == "FUNCTION"

ExpandLineNumber == "LINE"

ExpandTime == "TIME"

ExpandDuration == "DURATION"

ExpandSubject == "SUBJECT"

ExpandMessageLevel == "LEVEL"

ExpandMessage == "MESSAGE"

Verbs == {"%v", "%d"}

\* fmt.Sprintf(format, elements...): each verb takes the next element; a verb
\* with no element left and elements with no verb left are reported in the text
RECURSIVE Sprintf(_, _)
Sprintf(format, elements) ==
    IF format = <<>>
    THEN IF elements = <<>> THEN <<>> ELSE <<"%!(EXTRA)">>
    ELSE IF Head(format) \in Verbs
         THEN IF elements = <<>>
              THEN <<"%!(MISSING)">> \o Sprintf(Tail(format), elements)
              ELSE Head(elements) \o Sprintf(Tail(format), Tail(elements))
         ELSE <<Head(format)>> \o Sprintf(Tail(format), elements)

\* strings.Replace(s, old, new, -1)
RECURSIVE Replace(_, _, _)
Replace(s, old, new) ==
    IF s = <<>> THEN <<>>
    ELSE (IF Head(s) = old THEN new ELSE <<Head(s)>>) \o Replace(Tail(s), old, new)

\* strings.Contains(s, token)
Contains(s, token) == \E k \in 1..Len(s) : s[k] = token

\* an interface{} value: nil, or a value printed by %v as v
NilSubject == [nil |-> TRUE, v |-> <<>>]

Subj(s) == [nil |-> FALSE, v |-> <<s>>]

\* fmt.Sprintf("%v", subject)
SubjectString(subject) == IF subject.nil THEN <<"<nil>">> ELSE subject.v

\* "%v" of a LogLevel: fmt calls String() and prints a panic of it in place
LevelVerb(ll) ==
    IF StringPanics(ll) THEN <<"%!v(PANIC=String method)">> ELSE <<LevelString(ll)>>

----------------------------------------------------------------------------
(* Instance *)

\* log.LstdFlags = Ldate | Ltime
LstdFlags == 3

NoFlags == 0

Stdout == "stdout"

\* log.New(out, prefix, flag)
NewLogger(out, pfx, flag) == [out |-> out, prefix |-> pfx, flags |-> flag]

\* func (i *Instance) checkForRuntime() *Instance
checkForRuntime(i) ==
    IF Contains(i.Format, ExpandFunctionName) \/ Contains(i.Format, ExpandLineNumber)
    THEN [i EXCEPT !.needsRuntime = TRUE]
    ELSE i

\* func newInstance(name[, format], output, tags...) *Instance
\* (log.go's Instance has no Format: it is empty there).  id is history: it
\* tells the Instance apart from every other one, as its address does
newInstance(name, format, output, tags) ==
    LET i == [Name |-> name,
              Format |-> IF variant = "template" THEN format ELSE <<>>,
              output |-> output,
              tags |-> tags,
              log |-> NewLogger(Stdout, <<>>, NoFlags),
              needsRuntime |-> FALSE,
              id |-> <<"init", 0>>]
    IN  IF variant = "template" THEN checkForRuntime(i) ELSE i

\* func (i *Instance) initialize() *Instance
initialize(i) ==
    IF variant = "fixed"
    THEN [i EXCEPT !.log = NewLogger(Stdout, <<>>, LstdFlags)]
    ELSE [i EXCEPT !.log = NewLogger(i.output, <<>>, NoFlags)]

DefaultFormat == <<"[", "LEVEL", "] ", "SUBJECT", ", ", "MESSAGE">>

\* a changed default sink: it has a tag filter
DefaultLoggersTagged ==
    <<initialize(newInstance("default", DefaultFormat, Stdout, <<"db">>))>>

\* gologgers = []*Instance{newInstance("default", ..., os.Stdout).initialize()}
DefaultLoggers == <<initialize(newInstance("default", DefaultFormat, Stdout, <<>>))>>

\* func (i *Instance) expand(format string, msg *Message) string
\* order: the order in which range msg.values yields the keys of the map
RECURSIVE expand(_, _, _)
expand(format, values, order) ==
    IF order = <<>> THEN format
    ELSE expand(Replace(format, Head(order), values[Head(order)]), values, Tail(order))

----------------------------------------------------------------------------
(* Message *)

\* the zero value of the map field, which no code outside the package can set
NilValues == [nil |-> TRUE, m |-> <<>>]

\* Log's map of context values: line, function name, time, duration
ContextValues ==
    [nil |-> FALSE,
     m |-> (ExpandLineNumber :> <<"42">>) @@ (ExpandFunctionName :> <<"main.Handle">>)
           @@ (ExpandTime :> <<"t1">>) @@ (ExpandDuration :> <<"d1">>)]

\* a changed Log: it gives its messages the tag "db"
LogMessageTagged(lvl, subject, format, elements) ==
    [Level |-> lvl, Subject |-> subject, Tags |-> <<"db">>,
     values |-> IF variant = "template" THEN ContextValues ELSE NilValues,
     Format |-> format, Elements |-> elements]

\* Message{level, subject, nil, [values,] format, elements}
LogMessage(lvl, subject, format, elements) ==
    [Level |-> lvl, Subject |-> subject, Tags |-> <<>>,
     values |-> IF variant = "template" THEN ContextValues ELSE NilValues,
     Format |-> format, Elements |-> elements]

\* func matchTags(msgTags, logTags []string) bool
matchTags(msgTags, logTags) ==
    \E a \in 1..Len(msgTags) : \E b \in 1..Len(logTags) : msgTags[a] = logTags[b]

----------------------------------------------------------------------------
(* The inputs the producers draw their calls from *)

Outputs == {Stdout, "file"}

\* the output handles whose Write may return an error
FailingOutputs == {Stdout}

\* Log(level, subject, format, elements...)
LogCalls ==
    { [level |-> Debug, subject |-> NilSubject, format |-> <<"tick">>, elements |-> <<>>],
      [level |-> Warning, subject |-> Subj("auth"),
       format |-> <<"failed ", "%d", " times">>, elements |-> << <<"3">> >>],
      [level |-> None, subject |-> NilSubject, format |-> <<"tick">>, elements |-> <<>>],
      [level |-> BadLevel, subject |-> NilSubject, format |-> <<"tick">>, elements |-> <<>>] }

\* Sink <- Message{Level: ..., Tags: ..., Format: ...} from outside the package
DirectMessages ==
    { [Level |-> Error, Subject |-> NilSubject, Tags |-> tags, values |-> NilValues,
       Format |-> <<"x">>, Elements |-> <<>>] : tags \in { <<"db">>, <<"http">> } }

\* NewLevel <- l
DirectLevels == {Debug, None}

\* Prefix <- s
Prefixes == { <<"app: ">> }

\* AddLoggerInstance(name[, format], output, tags...)
AddCalls ==
    { [name |-> "db", format |-> <<"LEVEL", " ", "MESSAGE">>, output |-> "file",
       tags |-> <<"db">>],
      [name |-> "default", format |-> DefaultFormat, output |-> "file", tags |-> <<>>] }

\* DeRegisterLogger <- name
DeregNames == {"default", "db"}

\* the orders in which range msg.values may yield the seven keys
TokenOrder ==
    <<ExpandFunctionName, ExpandLineNumber, ExpandTime, ExpandDuration,
      ExpandSubject, ExpandMessageLevel, ExpandMessage>>

IterOrders == { TokenOrder, [k \in 1..7 |-> TokenOrder[8 - k]] }

----------------------------------------------------------------------------
(* Initial state: the package variables and init() *)

NoCmd == [kind |-> "none"]

NoLast ==
    [kind |-> "none", c |-> NoCmd, level |-> Info, prefix |-> <<>>, sinks |-> <<>>,
     outcome |-> "none", targets |-> <<>>, failed |-> {}]

ZeroCounts == [p \in Procs |-> [ch \in Channels |-> 0]]

\* no call of expand on its own is made
NoRender == [kind |-> "none"]

\* the package variables and the goroutines once init() has run
InitProgram(n) ==
    /\ variant \in {"fixed", "template"}
    /\ level = Info
    /\ prefix = <<>>
    /\ gologgers = DefaultLoggers
    /\ chan = [ch \in Channels |-> <<>>]
    /\ sendq = [ch \in Channels |-> <<>>]
    /\ dpc = "select"
    /\ cur = NoCmd
    /\ written = [o \in Outputs |-> <<>>]
    /\ budget = n
    /\ issuedBy = ZeroCounts
    /\ deregBy = [p \in Procs |-> {}]
    /\ handled = ZeroCounts
    /\ removed = {}
    /\ last = NoLast

InitWith(n) ==
    /\ InitProgram(n)
    /\ rin = NoRender
    /\ rout = NoRender

Init == InitWith(MaxOps)

----------------------------------------------------------------------------
(* The producers *)

dispatcherVars == <<level, prefix, gologgers, dpc, cur, written, handled, removed, last>>

\* the sends on ch counted in f, by all the producers of ps together
RECURSIVE CountAll(_, _, _)
CountAll(f, ch, ps) ==
    IF ps = {} THEN 0
    ELSE LET p == CHOOSE q \in ps : TRUE
         IN  f[p][ch] + CountAll(f, ch, ps \ {p})

\* a producer goroutine that is not parked makes a call that sends v on ch.
\* The value travels with a history record g: its sender, what the sender had
\* sent before, the entry point that built it (api) and its rank among the
\* sends on ch (seq)
IssueFrom(p, ch, v, api) ==
    /\ dpc # "panicked"
    /\ budget > 0
    /\ ~Blocked(p)
    /\ HasChan(ch)
    /\ Send(p, ch, [v |-> v,
                    g |-> [from |-> p, before |-> issuedBy[p], dereg |-> deregBy[p],
                           api |-> api, seq |-> CountAll(issuedBy, ch, Procs)]])
    /\ issuedBy' = [issuedBy EXCEPT ![p][ch] = @ + 1]
    /\ budget' = budget - 1
    /\ UNCHANGED <<staticVars, dispatcherVars>>

\* a send made by code outside the package
Issue(p, ch, v) == IssueFrom(p, ch, v, "send")

\* func Log(level LogLevel, subject interface{}, format string, elements ...interface{})
Log(p, call) ==
    /\ IssueFrom(p, "Sink",
                 LogMessage(call.level, call.subject, call.format, call.elements), "Log")
    /\ UNCHANGED deregBy

\* Sink <- msg, by code outside the package
SendSink(p, msg) ==
    /\ Issue(p, "Sink", msg)
    /\ UNCHANGED deregBy

\* func IsProduction(b bool)
IsProduction(p, b) ==
    IF b
    THEN /\ IssueFrom(p, "NewLevel", Warning, "IsProduction")
         /\ UNCHANGED deregBy
    ELSE /\ dpc # "panicked"
         /\ budget > 0
         /\ ~Blocked(p)
         /\ budget' = budget - 1
         /\ UNCHANGED <<staticVars, dispatcherVars, chan, sendq, issuedBy, deregBy>>

\* NewLevel <- l
SendNewLevel(p, l) ==
    /\ Issue(p, "NewLevel", l)
    /\ UNCHANGED deregBy

\* Prefix <- s
SendPrefix(p, s) ==
    /\ Issue(p, "Prefix", s)
    /\ UNCHANGED deregBy

\* func AddLoggerInstance(name[, format], output, tags...)
AddLoggerInstance(p, call) ==
    /\ IssueFrom(p, "RegisterLogger",
                 [initialize(newInstance(call.name, call.format, call.output, call.tags))
                    EXCEPT !.id = <<p, issuedBy[p]["RegisterLogger"]>>],
                 "AddLoggerInstance")
    /\ UNCHANGED deregBy

\* DeRegisterLogger <- name
SendDeRegister(p, name) ==
    /\ Issue(p, "DeRegisterLogger", name)
    /\ deregBy' = [deregBy EXCEPT ![p] = @ \cup {name}]

----------------------------------------------------------------------------
(* The dispatcher goroutine of init(): for { select { ... } } *)

producerVars == <<budget, issuedBy, deregBy>>

\* a case of the select is chosen among the ready ones and receives its value
Select(ch) ==
    /\ dpc = "select"
    /\ Ready(ch)
    /\ Recv(ch)
    /\ cur' = [kind |-> ch, c |-> RecvValue(ch)]
    /\ dpc' = "handle"
    /\ UNCHANGED <<staticVars, level, prefix, gologgers, written, handled, removed, last,
                   producerVars>>

SelectRegisterLogger == Select("RegisterLogger")

SelectDeRegisterLogger == Select("DeRegisterLogger")

SelectNewLevel == Select("NewLevel")

SelectPrefix == Select("Prefix")

SelectSink == Select("Sink")

\* the handler's end: back to the select
Done(outcome, targets, failed) ==
    /\ dpc' = "select"
    /\ cur' = NoCmd
    /\ handled' = [handled EXCEPT ![cur.c.g.from][cur.kind] = @ + 1]
    /\ last' = [kind |-> cur.kind, c |-> cur.c, level |-> level, prefix |-> prefix,
                sinks |-> gologgers, outcome |-> outcome, targets |-> targets,
                failed |-> failed]

\* a panic in the dispatcher goroutine ends the process
Panic ==
    /\ dpc' = "panicked"
    /\ cur' = NoCmd
    /\ last' = [kind |-> cur.kind, c |-> cur.c, level |-> level, prefix |-> prefix,
                sinks |-> gologgers, outcome |-> "panic", targets |-> <<>>,
                failed |-> {}]
    /\ UNCHANGED handled

\* case logger := <-RegisterLogger
HandleRegisterLogger ==
    /\ dpc = "handle"
    /\ cur.kind = "RegisterLogger"
    /\ gologgers' = Append(gologgers, cur.c.v)
    /\ removed' = removed \ {cur.c.v.Name}
    /\ Done("registered", <<>>, {})
    /\ UNCHANGED <<staticVars, level, prefix, chan, sendq, written, producerVars>>

\* a changed loop: only the first instance of that name is skipped
RECURSIVE CompactFirstOnly(_, _, _, _)
CompactFirstOnly(arr, name, j, i) ==
    IF j > Len(arr) THEN SubSeq(arr, 1, i)
    ELSE IF arr[j].Name = name /\ i = j - 1
         THEN CompactFirstOnly(arr, name, j + 1, i)
         ELSE CompactFirstOnly([arr EXCEPT ![i + 1] = arr[j]], name, j + 1, i + 1)

\* a changed loop: the final gologgers = gologgers[:i] is missing
RECURSIVE CompactNoReslice(_, _, _, _)
CompactNoReslice(arr, name, j, i) ==
    IF j > Len(arr) THEN arr
    ELSE IF arr[j].Name = name
         THEN CompactNoReslice(arr, name, j + 1, i)
         ELSE CompactNoReslice([arr EXCEPT ![i + 1] = arr[j]], name, j + 1, i + 1)

\* i := 0; for _, l := range gologgers { if l.Name == name { continue };
\* gologgers[i] = l; i++ }; gologgers = gologgers[:i]
\* j: the range's position, i: the elements kept so far; l is read from the
\* array the loop writes to
RECURSIVE Compact(_, _, _, _)
Compact(arr, name, j, i) ==
    IF j > Len(arr) THEN SubSeq(arr, 1, i)
    ELSE IF arr[j].Name = name
         THEN Compact(arr, name, j + 1, i)
         ELSE Compact([arr EXCEPT ![i + 1] = arr[j]], name, j + 1, i + 1)

\* case name := <-DeRegisterLogger
HandleDeRegisterLogger ==
    /\ dpc = "handle"
    /\ cur.kind = "DeRegisterLogger"
    /\ gologgers' = Compact(gologgers, cur.c.v, 1, 0)
    /\ removed' = removed \cup {cur.c.v}
    /\ Done("deregistered", <<>>, {})
    /\ UNCHANGED <<staticVars, level, prefix, chan, sendq, written, producerVars>>

\* case newLevel := <-NewLevel
HandleNewLevel ==
    /\ dpc = "handle"
    /\ cur.kind = "NewLevel"
    /\ level' = cur.c.v
    /\ Done("level", <<>>, {})
    /\ UNCHANGED <<staticVars, prefix, gologgers, chan, sendq, written, removed, producerVars>>

\* case prfx := <-Prefix
HandlePrefix ==
    /\ dpc = "handle"
    /\ cur.kind = "Prefix"
    /\ prefix' = cur.c.v
    /\ gologgers' = [k \in 1..Len(gologgers) |->
                       [gologgers[k] EXCEPT !.log =
                           NewLogger(gologgers[k].output, cur.c.v, LstdFlags)]]
    /\ Done("prefix", <<>>, {})
    /\ UNCHANGED <<staticVars, level, chan, sendq, written, removed, producerVars>>

\* a sink passes: no tags means pass on everything
Passes(l, msg) == Len(l.tags) = 0 \/ matchTags(msg.Tags, l.tags)

\* var loggers []*Instance; for _, l := range gologgers { ... append(loggers, l) }
\* as the positions in gologgers of the instances kept, in order
RECURSIVE Candidates(_, _, _)
Candidates(sinks, msg, k) ==
    IF k > Len(sinks) THEN <<>>
    ELSE (IF Passes(sinks[k], msg) THEN <<k>> ELSE <<>>) \o Candidates(sinks, msg, k + 1)

\* the threshold test of the Sink case: the message is dropped
BelowThreshold(msg) == msg.Level < level

\* log.go: the text handed to l.log.Printf
FixedText(msg) ==
    IF ~msg.Subject.nil
    THEN Sprintf(<<"[", "%v", "] ", "%v", ", ", "%v">>,
                 <<LevelVerb(msg.Level), SubjectString(msg.Subject),
                   Sprintf(msg.Format, msg.Elements)>>)
    ELSE Sprintf(<<"[", "%v", "] ", "%v">>,
                 <<LevelVerb(msg.Level), Sprintf(msg.Format, msg.Elements)>>)

\* part_000: msg.values after the three assignments of the Sink case
FilledValues(msg) ==
    (ExpandMessage :> Sprintf(msg.Format, msg.Elements))
    @@ (ExpandSubject :> SubjectString(msg.Subject))
    @@ (ExpandMessageLevel :> <<LevelString(msg.Level)>>)
    @@ msg.values.m

\* part_000: format := l.expand(l.Format, &msg); l.log.Printf(format)
TemplateText(l, msg, order) == Sprintf(expand(l.Format, FilledValues(msg), order), <<>>)

\* what log.Logger.Output writes: the prefix, the date and time when the flags
\* ask for them, the text and a newline
\* sink and seq are history: the Instance that printed the line and the rank
\* of the message among the sends on Sink
Line(l, text) ==
    [prefix |-> l.log.prefix, flags |-> l.log.flags, text |-> text,
     sink |-> l.id, seq |-> cur.c.g.seq]

\* a changed loop: it returns at the first Write that fails
RECURSIVE PrintAllStopOnError(_, _, _, _, _, _)
PrintAllStopOnError(w, sinks, targets, texts, failed, k) ==
    IF k > Len(targets) \/ k \in failed THEN w
    ELSE LET l == sinks[targets[k]]
         IN  PrintAllStopOnError(
                 [w EXCEPT ![l.log.out] =
                    Append(@, Line(l, texts[k]))],
                 sinks, targets, texts, failed, k + 1)

\* for _, l := range loggers { l.log.Printf(...) }: Printf drops the error
\* of a failed Write and the loop goes on.  failed: the positions in targets
\* whose Write fails
RECURSIVE PrintAll(_, _, _, _, _, _)
PrintAll(w, sinks, targets, texts, failed, k) ==
    IF k > Len(targets) THEN w
    ELSE LET l == sinks[targets[k]]
             w2 == IF k \in failed THEN w
                   ELSE [w EXCEPT ![l.log.out] = Append(@, Line(l, texts[k]))]
         IN  PrintAll(w2, sinks, targets, texts, failed, k + 1)

\* case msg := <-Sink
HandleSink ==
    /\ dpc = "handle"
    /\ cur.kind = "Sink"
    /\ LET msg == cur.c.v
           targets == Candidates(gologgers, msg, 1)
       IN  IF BelowThreshold(msg)
           THEN /\ Done("dropped", <<>>, {})
                /\ UNCHANGED written
           ELSE IF Len(targets) = 0
           THEN /\ Done("nomatch", <<>>, {})
                /\ UNCHANGED written
           ELSE IF variant = "template" /\ (msg.values.nil \/ StringPanics(msg.Level))
           THEN /\ Panic
                /\ UNCHANGED written
           ELSE \E failed \in SUBSET {k \in 1..Len(targets) :
                                        gologgers[targets[k]].log.out \in FailingOutputs} :
                \E orders \in [1..Len(targets) ->
                                 IF variant = "template" THEN IterOrders ELSE {TokenOrder}] :
                   LET texts == [k \in 1..Len(targets) |->
                                   IF variant = "template"
                                   THEN TemplateText(gologgers[targets[k]], msg, orders[k])
                                   ELSE FixedText(msg)]
                   IN  /\ written' = PrintAll(written, gologgers, targets, texts, failed, 1)
                       /\ Done("written", targets, failed)
    /\ UNCHANGED <<staticVars, level, prefix, gologgers, chan, sendq, removed, producerVars>>

----------------------------------------------------------------------------
(* The specification *)

Next ==
    \/ \E p \in Procs : \E call \in LogCalls : Log(p, call)
    \/ \E p \in Procs : \E msg \in DirectMessages : SendSink(p, msg)
    \/ \E p \in Procs : \E b \in BOOLEAN : IsProduction(p, b)
    \/ \E p \in Procs : \E l \in DirectLevels : SendNewLevel(p, l)
    \/ \E p \in Procs : \E s \in Prefixes : SendPrefix(p, s)
    \/ \E p \in Procs : \E call \in AddCalls : AddLoggerInstance(p, call)
    \/ \E p \in Procs : \E name \in DeregNames : SendDeRegister(p, name)
    \/ SelectRegisterLogger
    \/ SelectDeRegisterLogger
    \/ SelectNewLevel
    \/ SelectPrefix
    \/ SelectSink
    \/ HandleRegisterLogger
    \/ HandleDeRegisterLogger
    \/ HandleNewLevel
    \/ HandlePrefix
    \/ HandleSink

Spec == Init /\ [][Next]_vars

\* the behaviours in which one producer keeps calling Log with a message below
\* the threshold, so that the Sink channel fills
FloodCall ==
    [level |-> Debug, subject |-> NilSubject, format |-> <<"tick">>, elements |-> <<>>]

InitFlood == InitWith(FloodOps)

NextFlood ==
    \/ \E p \in FloodProcs : Log(p, FloodCall)
    \/ SelectSink
    \/ HandleSink

SpecFlood == InitFlood /\ [][NextFlood]_vars

----------------------------------------------------------------------------
(* Instance.expand called on its own: the template, the context and the
   orders in which two evaluations of range msg.values yield the keys are
   drawn at the start *)

ExpandTemplates ==
    { DefaultFormat, <<"SUBJECT">>, <<"MESSAGE", " (", "SUBJECT", ")">>,
      <<"TIME", " ", "LEVEL", " ", "MESSAGE">> }

\* what fmt.Sprintf("%v", msg.Subject) may give: the second is the text of
\* the token MESSAGE, the third the text of the token SUBJECT itself
ExpandSubjects == { <<"auth">>, <<"MESSAGE">>, <<"SUBJECT">> }

\* what fmt.Sprintf(msg.Format, msg.Elements...) may give: the second holds
\* the text of the token SUBJECT
ExpandBodies == { <<"tick">>, <<"see ", "SUBJECT">> }

\* the context the dispatcher has filled: the seven keys
ExpandContexts ==
    { (ExpandSubject :> sb) @@ (ExpandMessageLevel :> <<LevelString(lv)>>)
          @@ (ExpandMessage :> b) @@ ContextValues.m :
        sb \in ExpandSubjects, lv \in {Warning, Error}, b \in ExpandBodies }

\* iteration orders of the map: the two of IterOrders and the six that yield
\* the four keys of Log first and then the three of the dispatcher
ExpandOrders ==
    IterOrders \cup
    { SubSeq(TokenOrder, 1, 4) \o o :
        o \in { q \in [1..3 -> {ExpandSubject, ExpandMessageLevel, ExpandMessage}] :
                  q[1] # q[2] /\ q[1] # q[3] /\ q[2] # q[3] } }

InitExpand ==
    /\ InitProgram(0)
    /\ variant = "template"
    /\ rin \in [kind : {"expand"}, format : ExpandTemplates, values : ExpandContexts,
                first : ExpandOrders, second : ExpandOrders]
    /\ rout = NoRender

\* format := l.expand(l.Format, &msg), evaluated twice on the same arguments
Expand ==
    /\ rout = NoRender
    /\ rout' = [kind |-> "expand",
                first |-> expand(rin.format, rin.values, rin.first),
                second |-> expand(rin.format, rin.values, rin.second)]
    /\ UNCHANGED <<variant, rin, level, prefix, gologgers, chan, sendq, dpc, cur, written,
                   budget, issuedBy, deregBy, handled, removed, last>>

NextExpand == Expand

SpecExpand == InitExpand /\ [][NextExpand]_vars

----------------------------------------------------------------------------
(* Properties *)

Range(q) == {q[k] : k \in 1..Len(q)}

IsPrefixOf(a, b) == Len(a) =< Len(b) /\ SubSeq(b, 1, Len(a)) = a

\* the producer is parked in a send on ch
BlockedOn(p, ch) == \E k \in 1..Len(sendq[ch]) : sendq[ch][k].from = p

\* the last handler was the Sink case, for a message whose level is one of
\* the seven defined levels
LastWasMessage == last.kind = "Sink" /\ last.c.v.Level =< None

\* C1: a message below the threshold in force when it is dequeued is written to
\* no sink; a message at or above it is written to every registered sink that
\* matches it.
C1_ThresholdFiltering ==
    LastWasMessage =>
        IF last.c.v.Level < last.level
        THEN Range(last.targets) = {}
        ELSE Range(last.targets) =
                 {k \in 1..Len(last.sinks) : Passes(last.sinks[k], last.c.v)}

\* C2: a message that passes the threshold is written to a sink of the list
\* exactly when the sink's tag filter is empty or shares a tag with the message.
C2_TagRouting ==
    (LastWasMessage /\ last.c.v.Level >= last.level) =>
        \A k \in 1..Len(last.sinks) :
            k \in Range(last.targets) <=>
                \/ Range(last.sinks[k].tags) = {}
                \/ Range(last.sinks[k].tags) \cap Range(last.c.v.Tags) # {}

\* C3: when a message is filtered, every NewLevel send that had returned to its
\* producer before the producer called Log has been applied to the threshold.
C3_SetLevelVisible ==
    last.kind = "Sink" =>
        handled[last.c.g.from]["NewLevel"] >= last.c.g.before["NewLevel"]

\* C3 witness: a message at INFO or above, logged after its producer's NewLevel
\* send returned, was dropped by the raised threshold.
C3_Witness ==
    /\ last.kind = "Sink"
    /\ last.c.g.before["NewLevel"] > 0
    /\ last.c.v.Level >= Info
    /\ last.outcome = "dropped"

\* C4 as claimed: when the dispatcher has processed a command, it has processed
\* every command the same producer issued before it, on whatever channel.
C4_StrictFifo ==
    (last.kind # "none" /\ last.outcome # "panic") =>
        \A ch \in Channels : handled[last.c.g.from][ch] >= last.c.g.before[ch]

\* C4 amended: when the dispatcher has processed a command, it has processed
\* every earlier command of the same producer that went through the same
\* channel or through an unbuffered channel (NewLevel, Prefix).
C4_FifoPerChannel ==
    (last.kind # "none" /\ last.outcome # "panic") =>
        /\ handled[last.c.g.from][last.kind] = last.c.g.before[last.kind] + 1
        /\ \A ch \in {"NewLevel", "Prefix"} :
               handled[last.c.g.from][ch] >= last.c.g.before[ch]

\* C4 witness: the second message of one producer was processed after its first,
\* and after a NewLevel command the producer sent in between or before.
C4_Witness ==
    /\ last.kind = "Sink"
    /\ last.c.g.before["Sink"] > 0
    /\ last.c.g.before["NewLevel"] > 0

\* C5 as claimed: a message logged by a producer after its send of N on
\* DeRegisterLogger returned is written to no sink named N (no sink is
\* registered in these behaviours).
C5_DeregisterOnReturn ==
    (/\ last.kind = "Sink"
     /\ \A p \in Procs : issuedBy[p]["RegisterLogger"] = 0) =>
        \A k \in Range(last.targets) : last.sinks[k].Name \notin last.c.g.dereg

\* C5 amended: once the dispatcher has processed a deregistration of N, and
\* until it processes a registration of a sink named N, the sink list holds no
\* sink named N and no message is written to one; the lines already written
\* stay as they are.
C5_DeregisterOnProcess ==
    /\ [](/\ \A k \in 1..Len(gologgers) : gologgers[k].Name \notin removed
          /\ last.kind = "Sink" =>
                \A k \in Range(last.targets) : last.sinks[k].Name \notin removed)
    /\ [][\A o \in Outputs : IsPrefixOf(written[o], written'[o])]_vars

\* C5 witness: the default sink received a line, was deregistered, and a later
\* message at or above the threshold found no sink.
C5_Witness ==
    /\ "default" \in removed
    /\ written[Stdout] # <<>>
    /\ last.kind = "Sink"
    /\ last.outcome = "nomatch"

\* C6: after a deregistration of N the sink list is the previous list without
\* the sinks named N, in the same order; it is the previous list when none is
\* named N; the threshold and the prefix are unchanged.
C6_DeregisterResult ==
    last.kind = "DeRegisterLogger" =>
        /\ gologgers = SelectSeq(last.sinks, LAMBDA l : l.Name # last.c.v)
        /\ (\A k \in 1..Len(last.sinks) : last.sinks[k].Name # last.c.v)
               => gologgers = last.sinks
        /\ level = last.level
        /\ prefix = last.prefix

\* C6 witness: a deregistration removed two sinks of the same name around one
\* that stays.
C6_Witness ==
    /\ last.kind = "DeRegisterLogger"
    /\ Len(last.sinks) = 3
    /\ Len(gologgers) = 1
    /\ last.sinks[2] = gologgers[1]

\* C7: a Log call is parked only while 256 messages are pending in Sink, the
\* channel never holds more, and every message of a Log call is pending in the
\* channel, held by its parked caller, being handled or handled: none is lost.
C7_LogBackpressure ==
    /\ \A p \in Procs : BlockedOn(p, "Sink") => Len(chan["Sink"]) = SinkCap
    /\ Len(chan["Sink"]) =< SinkCap
    /\ CountAll(issuedBy, "Sink", Procs) =
           Len(chan["Sink"]) + Len(sendq["Sink"]) + CountAll(handled, "Sink", Procs)
           + (IF dpc = "handle" /\ cur.kind = "Sink" THEN 1 ELSE 0)
           + (IF last.kind = "Sink" /\ last.outcome = "panic" THEN 1 ELSE 0)

\* C7 witness: a Log call is parked on the full channel while the dispatcher is
\* busy with a message it dequeued.
C7_Witness ==
    /\ Len(sendq["Sink"]) = 1
    /\ Len(chan["Sink"]) = SinkCap
    /\ dpc = "handle"
    /\ cur.kind = "Sink"

\* C8: a producer's send of a control command never waits for ever (its
\* channel exists) and never waits for a delivery the dispatcher is performing.
C8_ControlNonBlocking ==
    \A p \in Procs : \A ch \in {"NewLevel", "RegisterLogger", "DeRegisterLogger"} :
        BlockedOn(p, ch) =>
            /\ ~IsNilChan(ch)
            /\ ~(dpc = "handle" /\ cur.kind = "Sink")

\* C9: a delivery in which some Writes fail still appends one line for every
\* other matching sink to that sink's output, returns the dispatcher to its
\* select and changes nothing a producer sees.
C9_FailureIsolation ==
    [][(dpc = "handle" /\ cur.kind = "Sink" /\ dpc' # dpc /\ last'.outcome = "written") =>
          /\ \A o \in Outputs :
                /\ IsPrefixOf(written[o], written'[o])
                /\ Len(written'[o]) = Len(written[o]) +
                       Cardinality({k \in 1..Len(last'.targets) :
                                       /\ k \notin last'.failed
                                       /\ gologgers[last'.targets[k]].log.out = o})
          /\ Range(last'.targets) =
                 {k \in 1..Len(gologgers) : Passes(gologgers[k], cur.c.v)}
          /\ dpc' = "select"
          /\ UNCHANGED <<chan, sendq, budget, issuedBy, deregBy>>]_vars

\* C9 witness: the Write of the first matching sink failed and the second
\* matching sink, on another output, received the line.
C9_Witness ==
    /\ last.kind = "Sink"
    /\ last.outcome = "written"
    /\ Len(last.targets) >= 2
    /\ 1 \in last.failed
    /\ 2 \notin last.failed
    /\ written["file"] # <<>>
    /\ dpc = "select"

\* C10: while the threshold is NONE no line is written to any output.
C10_NoneDisablesAll ==
    [][level = None => written' = written]_vars

\* the commands sent on ch and not yet handled: parked with their sender, in
\* the buffer, or received by the select
InFlight(ch) ==
    {sendq[ch][k].c : k \in 1..Len(sendq[ch])} \cup Range(chan[ch])
        \cup (IF cur.kind = ch THEN {cur.c} ELSE {})

PrefixProcessed == CountAll(handled, "Prefix", Procs) > 0

C13_ExpandPure ==
    rout # NoRender => rout.first = rout.second

\* the lines that the sink at position k of last.sinks printed for the
\* message of the last handler, as positions in the sink's output
LastLines(k) ==
    LET o == last.sinks[k].log.out
    IN  {i \in 1..Len(written[o]) : /\ written[o][i].seq = last.c.g.seq
                                    /\ written[o][i].sink = last.sinks[k].id}

\* the texts of those lines
LastTexts(k) == {written[last.sinks[k].log.out][i].text : i \in LastLines(k)}

\* the text a sink is to print for a message without subject: "[LEVEL] body"
\* in the fixed variant, the sink's template with SUBJECT replaced by the empty
\* string in the template variant
NoSubjectTexts(l, msg) ==
    IF variant = "fixed"
    THEN {<<"[", LevelString(msg.Level), "] ">> \o Sprintf(msg.Format, msg.Elements)}
    ELSE {Sprintf(expand(l.Format, [FilledValues(msg) EXCEPT ![ExpandSubject] = <<>>], o),
                  <<>>) : o \in IterOrders}

\* C14: a line written for a message whose subject is nil has no subject part:
\* it is "[LEVEL] body" in the fixed variant and, in the template variant, the
\* sink's template with the token SUBJECT replaced by the empty string.
C14_AbsentSubject ==
    (LastWasMessage /\ last.outcome = "written" /\ last.c.v.Subject.nil) =>
        \A k \in Range(last.targets) :
            LastTexts(k) \subseteq NoSubjectTexts(last.sinks[k], last.c.v)

\* the commands the dispatcher has handled, on all channels together
RECURSIVE TotalHandled(_)
TotalHandled(chs) ==
    IF chs = {} THEN 0
    ELSE LET ch == CHOOSE c \in chs : TRUE
         IN  CountAll(handled, ch, Procs) + TotalHandled(chs \ {ch})

\* the last handler handled the first command of the behaviour, a message
\* built by Log with one of the seven defined levels
FirstWasLog ==
    /\ LastWasMessage
    /\ last.c.g.api = "Log"
    /\ TotalHandled(Channels) = (IF last.outcome = "panic" THEN 0 ELSE 1)

\* C15: before any command is handled the list holds one sink, "default",
\* without tag filter, on standard output, and the threshold is INFO; a message
\* of Log handled first is printed once, by the default sink, when its level is
\* INFO or above (the line reaches standard output unless the Write fails), and
\* is printed by no sink when its level is DEBUG or below.
C15_InitialState ==
    /\ (TotalHandled(Channels) = 0 /\ last.kind = "none") =>
           /\ Len(gologgers) = 1
           /\ gologgers[1].Name = "default"
           /\ gologgers[1].tags = <<>>
           /\ gologgers[1].output = Stdout
           /\ gologgers[1].log.out = Stdout
           /\ level = Info
    /\ FirstWasLog =>
           IF last.c.v.Level >= Info
           THEN /\ last.outcome = "written"
                /\ last.targets = <<1>>
                /\ last.sinks[1].Name = "default"
                /\ Len(written[Stdout]) = (IF 1 \in last.failed THEN 0 ELSE 1)
                /\ \A o \in Outputs \ {Stdout} : written[o] = <<>>
           ELSE /\ last.outcome = "dropped"
                /\ \A o \in Outputs : written[o] = <<>>

\* C15 witness: the first command handled was a WARNING message of Log and
\* its line is the only one on standard output.
C15_Witness ==
    /\ FirstWasLog
    /\ last.c.v.Level = Warning
    /\ Len(written[Stdout]) = 1
    /\ written[Stdout][1].sink = <<"init", 0>>

\* the messages the dispatcher has handled
SinkHandled == CountAll(handled, "Sink", Procs)

\* the messages are received in the order of their sends on Sink: the one
\* being handled, or handled last, is the next after those handled before
ProcessedInOrder ==
    /\ (dpc = "handle" /\ cur.kind = "Sink") => cur.c.g.seq = SinkHandled
    /\ last.kind = "Sink" =>
           last.c.g.seq = SinkHandled - (IF last.outcome = "panic" THEN 0 ELSE 1)

\* on every output the lines follow the order of the messages, a sink has at
\* most one line for a message, and no line belongs to a message whose
\* handler has not finished
DeliveredInOrder ==
    \A o \in Outputs :
        /\ \A i, j \in 1..Len(written[o]) :
               i < j => /\ written[o][i].seq =< written[o][j].seq
                        /\ written[o][i].sink = written[o][j].sink
                               => written[o][i].seq < written[o][j].seq
        /\ \A i \in 1..Len(written[o]) : written[o][i].seq < SinkHandled

\* the Write of the sink at position k of last.sinks failed
FailedAt(k) == \E j \in last.failed : last.targets[j] = k

\* when the handler of a message is over, every sink of the list has printed
\* it once if it matches and the message passes the threshold (a failed Write
\* leaves no line), and not at all otherwise
CompleteDelivery ==
    LastWasMessage =>
        \A k \in 1..Len(last.sinks) :
            Cardinality(LastLines(k)) =
                IF /\ last.c.v.Level >= last.level
                   /\ Passes(last.sinks[k], last.c.v)
                   /\ ~FailedAt(k)
                THEN 1 ELSE 0

\* C16: messages are handled in the order of their sends on Sink, one at a
\* time; the lines of a sink are those of the messages that match it and pass
\* the threshold, in that order, one line for each.
C16_OrderedExactlyOnce ==
    /\ ProcessedInOrder
    /\ DeliveredInOrder
    /\ CompleteDelivery

\* C17: a call of AddLoggerInstance can complete: whenever the dispatcher is
\* at its select and an Instance is on its way, the RegisterLogger case is
\* ready, so that a fairly scheduled dispatcher receives it; and the handler
\* appends the Instance at the end of the list and leaves the sinks before it
\* and the threshold as they were.
C17_RegistrationTakesEffect ==
    /\ (dpc = "select" /\ InFlight("RegisterLogger") # {}) => Ready("RegisterLogger")
    /\ last.kind = "RegisterLogger" =>
           /\ gologgers = Append(last.sinks, last.c.v)
           /\ level = last.level

\* the dispatcher goroutine has died of something other than a level outside
\* the seven defined ones
DiedOnDefinedLevel == dpc = "panicked" /\ last.c.v.Level =< None

\* C18: a message for which Log has returned is not lost: while it waits in
\* the Sink buffer the dispatcher is alive and its Sink case is ready, so that
\* a fairly scheduled dispatcher receives it; and its handler drops it or
\* prints it once for every matching sink.
C18_NoMessageLoss ==
    /\ \A c \in Range(chan["Sink"]) :
           c.g.api = "Log" =>
               /\ ~DiedOnDefinedLevel
               /\ dpc = "select" => Ready("Sink")
    /\ (LastWasMessage /\ last.c.g.api = "Log") =>
           /\ last.outcome \in {"dropped", "nomatch", "written"}
           /\ CompleteDelivery

\* C19: in the template variant the handler of a message that passes the
\* threshold and matches a sink does not fail, and the context it hands to
\* expand has a value for each of the seven tokens.
C19_ContextComplete ==
    (variant = "template" /\ LastWasMessage /\ last.c.v.Level >= last.level
       /\ \E k \in 1..Len(last.sinks) : Passes(last.sinks[k], last.c.v)) =>
        /\ last.outcome = "written"
        /\ DOMAIN FilledValues(last.c.v) = Range(TokenOrder)

\* C20: a message built by Log has no tags; no sink with a tag filter is
\* among the sinks that print it; a sink with a tag filter prints only
\* messages sent on Sink directly that carry one of its tags.
C20_LogUntagged ==
    /\ \A c \in InFlight("Sink") : c.g.api = "Log" => c.v.Tags = <<>>
    /\ last.kind = "Sink" =>
           \A k \in 1..Len(last.sinks) :
               last.sinks[k].tags # <<>> =>
                   /\ last.c.g.api = "Log" =>
                          (k \notin Range(last.targets) /\ LastLines(k) = {})
                   /\ k \in Range(last.targets) =>
                          /\ last.c.g.api = "send"
                          /\ matchTags(last.c.v.Tags, last.sinks[k].tags)

\* C20 witness: with a sink that has a tag filter in the list, a message of
\* Log was printed, by the other sinks only.
C20_Witness ==
    /\ last.kind = "Sink"
    /\ last.c.g.api = "Log"
    /\ last.outcome = "written"
    /\ \E k \in 1..Len(last.sinks) :
           last.sinks[k].tags # <<>> /\ k \notin Range(last.targets)
    /\ \E k \in Range(last.targets) : LastLines(k) # {}

============================================================================
